---------------------------- MODULE Spec2Model ----------------------------
(***************************************************************************)
(* Model of the units library: include/units/units.hpp (class Quantity,    *)
(* the dimension-derivation aliases, the free operators and the units::    *)
(* math helpers) and include/units/Vector3D.hpp (class units::Vector3D).   *)
(*                                                                         *)
(* A C++ type Quantity<Mass, Length, ...> is modelled as a record          *)
(* [dim |-> D, value |-> x]: D is the eight std::ratio template arguments  *)
(* (each a reduced fraction <<num, den>>, den > 0) and x the stored        *)
(* double.  Doubles are modelled as exact reduced fractions; sqrt and      *)
(* fractional powers are followed on the arguments whose result is a       *)
(* fraction again.  A call the compiler rejects (template deduction        *)
(* fails, no conversion exists, a static_assert fires) is modelled as a    *)
(* call with status "ill-formed" that returns nothing.                     *)
(***************************************************************************)
EXTENDS Integers, Sequences, FiniteSets, TLC

(***************************************************************************)
(* Bounds of the model.                                                    *)
(***************************************************************************)
\* quantities are constructed with values -MaxVal .. MaxVal
MaxVal == 2
\* a stored value n/d stays within |n| <= MaxNum and d <= MaxDen
MaxNum == 8
MaxDen == 2
\* pow<R> and root<R> are instantiated for R in 1 .. MaxR
MaxR == 3
\* double arguments (factors, divisors, assigned numbers) are -MaxFactor .. MaxFactor
MaxFactor == 2
\* a stored vector component stays a whole number n with |n| <= MaxCompNum
MaxCompNum == 4

(***************************************************************************)
(* Exact fractions: std::ratio<N, D> at the type level, double values.     *)
(***************************************************************************)
Abs(n) == IF n < 0 THEN -n ELSE n

RECURSIVE Gcd(_, _)
Gcd(m, n) == IF n = 0 THEN m ELSE Gcd(n, m % n)

\* std::ratio<n, d>::type : the fraction in lowest terms, den > 0
Ratio(n, d) ==
    LET g == Gcd(Abs(n), Abs(d))
        s == IF d < 0 THEN -1 ELSE 1
    IN  <<(s * n) \div g, (s * d) \div g>>

ratio_add(r1, r2) == Ratio(r1[1] * r2[2] + r2[1] * r1[2], r1[2] * r2[2])

ratio_subtract(r1, r2) == Ratio(r1[1] * r2[2] - r2[1] * r1[2], r1[2] * r2[2])

ratio_multiply(r1, r2) == Ratio(r1[1] * r2[1], r1[2] * r2[2])

ratio_divide(r1, r2) == Ratio(r1[1] * r2[2], r1[2] * r2[1])

ratio_equal(r1, r2) == r1[1] = r2[1] /\ r1[2] = r2[2]

\* a double holding the integer n
D(n) == <<n, 1>>

DAdd(x, y) == Ratio(x[1] * y[2] + y[1] * x[2], x[2] * y[2])

DSub(x, y) == Ratio(x[1] * y[2] - y[1] * x[2], x[2] * y[2])

DMul(x, y) == Ratio(x[1] * y[1], x[2] * y[2])

\* x / y for y # 0
DDiv(x, y) == Ratio(x[1] * y[2], x[2] * y[1])

DLess(x, y) == x[1] * y[2] < y[1] * x[2]

DLeq(x, y) == x[1] * y[2] <= y[1] * x[2]

RECURSIVE IPow(_, _)
IPow(k, n) == IF n = 0 THEN 1 ELSE k * IPow(k, n - 1)

\* std::pow(x, R) for an int R >= 0
std_pow(x, n) == Ratio(IPow(x[1], n), IPow(x[2], n))

IsPerfect(k, n) == \E r \in 0..k : IPow(r, n) = k

IRoot(k, n) == CHOOSE r \in 0..k : IPow(r, n) = k

\* the arguments on which std::pow(x, 1.0 / R) is followed: those with a
\* fraction as result (x >= 0 with a perfect numerator and denominator)
HasRoot(x, n) == n = 1 \/ (x[1] >= 0 /\ IsPerfect(x[1], n) /\ IsPerfect(x[2], n))

\* std::pow(x, 1.0 / R) where HasRoot(x, R)
std_pow_inv(x, n) == IF n = 1 THEN x ELSE <<IRoot(x[1], n), IRoot(x[2], n)>>

\* std::sqrt(x) where HasRoot(x, 2)
std_sqrt(x) == <<IRoot(x[1], 2), IRoot(x[2], 2)>>


(***************************************************************************)
(* Quantity types.                                                         *)
(***************************************************************************)
\* the template arguments DIMS of Quantity<DIMS>, as std::ratio<m>, ...
Dims(m, l, t, i, a, o, j, n) ==
    [mass |-> Ratio(m, 1), length |-> Ratio(l, 1), time |-> Ratio(t, 1),
     current |-> Ratio(i, 1), angle |-> Ratio(a, 1), temperature |-> Ratio(o, 1),
     luminosity |-> Ratio(j, 1), moles |-> Ratio(n, 1)]

Number == Dims(0, 0, 0, 0, 0, 0, 0, 0)

Length == Dims(0, 1, 0, 0, 0, 0, 0, 0)

Area == Dims(0, 2, 0, 0, 0, 0, 0, 0)

Force == Dims(1, 1, -2, 0, 0, 0, 0, 0)

Torque == Dims(1, 2, -2, 0, 0, 0, 0, 0)

\* Quantity<DIMS>(value)
Quantity(dims, value) == [dim |-> dims, value |-> value]

\* Quantity::val()
val(q) == q.value

\* the static_assert of operator=(const double&): every exponent is ratio<0>
IsNumber(q) ==
    /\ ratio_equal(q.dim.mass, Ratio(0, 1)) /\ ratio_equal(q.dim.length, Ratio(0, 1))
    /\ ratio_equal(q.dim.time, Ratio(0, 1)) /\ ratio_equal(q.dim.current, Ratio(0, 1))
    /\ ratio_equal(q.dim.angle, Ratio(0, 1))
    /\ ratio_equal(q.dim.temperature, Ratio(0, 1))
    /\ ratio_equal(q.dim.luminosity, Ratio(0, 1)) /\ ratio_equal(q.dim.moles, Ratio(0, 1))

\* a member's parameter Quantity<DIMS>: an argument of another instantiation
\* has no conversion to it (the only non-explicit constructor is the copy)
Accepts(self, other) == other.dim = self.dim

\* template <isQuantity Q> f(Q lhs, Q rhs): Q is deduced from both arguments
DeducesNoDimCheck(lhs, rhs) == TRUE

Deduces(lhs, rhs) == lhs.dim = rhs.dim

\* Quantity::convert
convert_inverted(self, quantity) == DDiv(quantity.value, self.value)

convert(self, quantity) == DDiv(self.value, quantity.value)

\* Quantity::operator+=
operator_plus_assign(self, other) == [self EXCEPT !.value = DAdd(@, other.value)]

\* Quantity::operator-= : the statement is "value == other.value;", a
\* comparison whose result is discarded
operator_minus_assign(self, other) ==
    LET discarded == (self.value = other.value) IN self

\* Quantity::operator*=
operator_times_assign_squares(self, multiple) ==
    [dim |-> [s \in DOMAIN self.dim |-> ratio_add(self.dim[s], self.dim[s])],
     value |-> DMul(self.value, multiple)]

operator_times_assign(self, multiple) == [self EXCEPT !.value = DMul(@, multiple)]

\* Quantity::operator/=
operator_div_assign(self, dividend) == [self EXCEPT !.value = DDiv(@, dividend)]

\* Quantity::operator=(const double&)
operator_assign(self, rhs) == [self EXCEPT !.value = rhs]

\* unit_cast<Q1>(Q2 quantity)
unit_cast(Q1, quantity) == Quantity(Q1, val(quantity))

(***************************************************************************)
(* The dimension-derivation aliases.                                       *)
(***************************************************************************)
QMultiplicationSubtractsTime(Q1, Q2) ==
    [mass |-> ratio_add(Q1.mass, Q2.mass), length |-> ratio_add(Q1.length, Q2.length),
     time |-> ratio_subtract(Q1.time, Q2.time), current |-> ratio_add(Q1.current, Q2.current),
     angle |-> ratio_add(Q1.angle, Q2.angle),
     temperature |-> ratio_add(Q1.temperature, Q2.temperature),
     luminosity |-> ratio_add(Q1.luminosity, Q2.luminosity),
     moles |-> ratio_add(Q1.moles, Q2.moles)]

QMultiplication(Q1, Q2) ==
    [mass |-> ratio_add(Q1.mass, Q2.mass), length |-> ratio_add(Q1.length, Q2.length),
     time |-> ratio_add(Q1.time, Q2.time), current |-> ratio_add(Q1.current, Q2.current),
     angle |-> ratio_add(Q1.angle, Q2.angle),
     temperature |-> ratio_add(Q1.temperature, Q2.temperature),
     luminosity |-> ratio_add(Q1.luminosity, Q2.luminosity),
     moles |-> ratio_add(Q1.moles, Q2.moles)]

QDivision(Q1, Q2) ==
    [mass |-> ratio_subtract(Q1.mass, Q2.mass),
     length |-> ratio_subtract(Q1.length, Q2.length),
     time |-> ratio_subtract(Q1.time, Q2.time),
     current |-> ratio_subtract(Q1.current, Q2.current),
     angle |-> ratio_subtract(Q1.angle, Q2.angle),
     temperature |-> ratio_subtract(Q1.temperature, Q2.temperature),
     luminosity |-> ratio_subtract(Q1.luminosity, Q2.luminosity),
     moles |-> ratio_subtract(Q1.moles, Q2.moles)]

QPower(Q, factor) ==
    [mass |-> ratio_multiply(Q.mass, factor), length |-> ratio_multiply(Q.length, factor),
     time |-> ratio_multiply(Q.time, factor), current |-> ratio_multiply(Q.current, factor),
     angle |-> ratio_multiply(Q.angle, factor),
     temperature |-> ratio_multiply(Q.temperature, factor),
     luminosity |-> ratio_multiply(Q.luminosity, factor),
     moles |-> ratio_multiply(Q.moles, factor)]

QRoot(Q, quotient) ==
    [mass |-> ratio_divide(Q.mass, quotient), length |-> ratio_divide(Q.length, quotient),
     time |-> ratio_divide(Q.time, quotient), current |-> ratio_divide(Q.current, quotient),
     angle |-> ratio_divide(Q.angle, quotient),
     temperature |-> ratio_divide(Q.temperature, quotient),
     luminosity |-> ratio_divide(Q.luminosity, quotient),
     moles |-> ratio_divide(Q.moles, quotient)]

(***************************************************************************)
(* The free operators on quantities.                                       *)
(***************************************************************************)
\* operator+(Q lhs, Q rhs)
operator_plus(lhs, rhs) == Quantity(lhs.dim, DAdd(val(lhs), val(rhs)))

\* operator-(Q lhs, Q rhs)
operator_minus(lhs, rhs) == Quantity(lhs.dim, DSub(val(lhs), val(rhs)))

\* operator*(Q quantity, double multiple) and operator*(double, Q)
operator_times_double(quantity, multiple) ==
    Quantity(quantity.dim, DMul(val(quantity), multiple))

\* operator/(Q quantity, double divisor)
operator_div_double(quantity, divisor) ==
    Quantity(quantity.dim, DDiv(val(quantity), divisor))

\* operator*(Q1 lhs, Q2 rhs) -> Q3 = QMultiplication<Q1, Q2>
operator_times(lhs, rhs) ==
    Quantity(QMultiplication(lhs.dim, rhs.dim), DMul(val(lhs), val(rhs)))

\* operator/(Q1 lhs, Q2 rhs) -> Q3 = QDivision<Q1, Q2>
operator_div(lhs, rhs) ==
    Quantity(QDivision(lhs.dim, rhs.dim), DDiv(val(lhs), val(rhs)))

operator_eq(lhs, rhs) == val(lhs) = val(rhs)

operator_ne(lhs, rhs) == val(lhs) # val(rhs)

operator_le(lhs, rhs) == DLeq(val(lhs), val(rhs))

operator_ge(lhs, rhs) == DLeq(val(rhs), val(lhs))

operator_lt(lhs, rhs) == DLess(val(lhs), val(rhs))

operator_gt(lhs, rhs) == DLess(val(rhs), val(lhs))

(***************************************************************************)
(* namespace units: powers and roots.                                      *)
(***************************************************************************)
\* units::pow<R>(lhs) -> S = QPower<Q, std::ratio<R>>
units_pow_multiplies(R, lhs) ==
    Quantity(QPower(lhs.dim, Ratio(R, 1)), DMul(val(lhs), D(R)))

units_pow(R, lhs) == Quantity(QPower(lhs.dim, Ratio(R, 1)), std_pow(val(lhs), R))

\* units::square(rhs) -> S = QPower<Q, std::ratio<2>>; the value is std::sqrt
units_square(rhs) == Quantity(QPower(rhs.dim, Ratio(2, 1)), std_sqrt(val(rhs)))

\* units::cube(rhs) -> S = QPower<Q, std::ratio<3>>; the value is std::sqrt
units_cube(rhs) == Quantity(QPower(rhs.dim, Ratio(3, 1)), std_sqrt(val(rhs)))

\* units::root<R>(lhs) -> S = QRoot<Q, std::ratio<R>>
units_root(R, lhs) == Quantity(QRoot(lhs.dim, Ratio(R, 1)), std_pow_inv(val(lhs), R))

\* units::sqrt(rhs) -> S = QRoot<Q, std::ratio<2>>
units_sqrt(rhs) == Quantity(QRoot(rhs.dim, Ratio(2, 1)), std_sqrt(val(rhs)))

\* units::cbrt(rhs) -> S = QRoot<Q, std::ratio<3>>; the value is std::sqrt
units_cbrt(rhs) == Quantity(QRoot(rhs.dim, Ratio(3, 1)), std_sqrt(val(rhs)))


(***************************************************************************)
(* State.                                                                  *)
(***************************************************************************)
VARIABLES
    a,      \* a quantity object: the receiver / left operand of the calls
    b,      \* a second quantity object: the argument / right operand
    ctor,   \* the dimension vectors a and b were constructed with
    v,      \* a Vector3D object: the receiver of the vector calls
    w,      \* a second Vector3D object: the argument
    old,    \* the receiver (a or v) as it was before the last call
    call,   \* the last call: its name, double argument f, template int n, status
    ret     \* what the last call returned

vars == <<a, b, ctor, v, w, old, call, ret>>

\* the quantity types objects are constructed with
QuantityTypes == {Number, Length, Force}

Values == {D(x) : x \in -MaxVal..MaxVal}

Factors == {D(x) : x \in -MaxFactor..MaxFactor}

Representable(x) == Abs(x[1]) <= MaxNum /\ x[2] <= MaxDen

\* what a call that returns void returns, and what an ill-formed call returns
Void == [void |-> TRUE]

NoResult == [none |-> TRUE]

\* return values that are not quantities or vectors
Double(x) == [double |-> x]

Bool(p) == [bool |-> p]

\* Vector3D(T nx, T ny, T nz)
Vector3D(nx, ny, nz) == [x |-> nx, y |-> ny, z |-> nz]

\* Vector3D() : x(0.0), y(0.0), z(0.0)
Vector3D_default(T) == Vector3D(Quantity(T, D(0)), Quantity(T, D(0)), Quantity(T, D(0)))

(***************************************************************************)
(* Calls on the quantity objects.  A well-formed call on a returns `result`*)
(* and leaves a as `self`; an ill-formed call does not compile.            *)
(***************************************************************************)
QCall(op, f, n, wellFormed, self, result) ==
    /\ old' = a
    /\ call' = [op |-> op, f |-> f, n |-> n,
                status |-> IF wellFormed THEN "ok" ELSE "ill-formed"]
    /\ a' = IF wellFormed THEN self ELSE a
    /\ ret' = IF wellFormed THEN result ELSE NoResult
    /\ UNCHANGED <<b, ctor, v, w>>

Add == QCall("add", D(0), 0, Deduces(a, b), a, operator_plus(a, b))

Sub == QCall("sub", D(0), 0, Deduces(a, b), a, operator_minus(a, b))

Eq == QCall("eq", D(0), 0, Deduces(a, b), a, Bool(operator_eq(a, b)))

Ne == QCall("ne", D(0), 0, Deduces(a, b), a, Bool(operator_ne(a, b)))

Le == QCall("le", D(0), 0, Deduces(a, b), a, Bool(operator_le(a, b)))

Ge == QCall("ge", D(0), 0, Deduces(a, b), a, Bool(operator_ge(a, b)))

Lt == QCall("lt", D(0), 0, Deduces(a, b), a, Bool(operator_lt(a, b)))

Gt == QCall("gt", D(0), 0, Deduces(a, b), a, Bool(operator_gt(a, b)))

Convert ==
    /\ Accepts(a, b) => val(b) # D(0)
    /\ QCall("convert", D(0), 0, Accepts(a, b), a, Double(convert(a, b)))

PlusAssign ==
    /\ Accepts(a, b) => Representable(operator_plus_assign(a, b).value)
    /\ QCall("plus_assign", D(0), 0, Accepts(a, b), operator_plus_assign(a, b), Void)

MinusAssign ==
    /\ Accepts(a, b) => Representable(operator_minus_assign(a, b).value)
    /\ QCall("minus_assign", D(0), 0, Accepts(a, b), operator_minus_assign(a, b), Void)

TimesAssign(f) ==
    /\ Representable(operator_times_assign(a, f).value)
    /\ QCall("times_assign", f, 0, TRUE, operator_times_assign(a, f), Void)

DivAssign(f) ==
    /\ f # D(0)
    /\ Representable(operator_div_assign(a, f).value)
    /\ QCall("div_assign", f, 0, TRUE, operator_div_assign(a, f), Void)

Assign(f) == QCall("assign", f, 0, IsNumber(a), operator_assign(a, f), Void)

Times == QCall("times", D(0), 0, TRUE, a, operator_times(a, b))

Div ==
    /\ val(b) # D(0)
    /\ QCall("div", D(0), 0, TRUE, a, operator_div(a, b))

TimesDouble(f) == QCall("times_double", f, 0, TRUE, a, operator_times_double(a, f))

DivDouble(f) ==
    /\ f # D(0)
    /\ QCall("div_double", f, 0, TRUE, a, operator_div_double(a, f))

UnitCast(Q1) == QCall("unit_cast", D(0), 0, TRUE, a, unit_cast(Q1, a))

Pow(R) == QCall("pow", D(0), R, TRUE, a, units_pow(R, a))

Root(R) ==
    /\ HasRoot(val(a), R)
    /\ QCall("root", D(0), R, TRUE, a, units_root(R, a))

Square ==
    /\ HasRoot(val(a), 2)
    /\ QCall("square", D(0), 0, TRUE, a, units_square(a))

Cube ==
    /\ HasRoot(val(a), 2)
    /\ QCall("cube", D(0), 0, TRUE, a, units_cube(a))

Sqrt ==
    /\ HasRoot(val(a), 2)
    /\ QCall("sqrt", D(0), 0, TRUE, a, units_sqrt(a))

Cbrt ==
    /\ HasRoot(val(a), 2)
    /\ QCall("cbrt", D(0), 0, TRUE, a, units_cbrt(a))

\* two quantity objects constructed from doubles; no vector is in use
Init ==
    /\ a \in {Quantity(T, x) : T \in QuantityTypes, x \in Values}
    /\ b \in {Quantity(T, x) : T \in QuantityTypes, x \in Values}
    /\ ctor = [a |-> a.dim, b |-> b.dim]
    /\ v = Vector3D_default(Number)
    /\ w = Vector3D_default(Number)
    /\ old = a
    /\ call = [op |-> "construct", f |-> D(0), n |-> 0, status |-> "ok"]
    /\ ret = Void

Next ==
    \/ Add \/ Sub \/ Eq \/ Ne \/ Le \/ Ge \/ Lt \/ Gt \/ Convert
    \/ PlusAssign \/ MinusAssign
    \/ \E f \in Factors : TimesAssign(f)
    \/ \E f \in Factors : DivAssign(f)
    \/ \E f \in Factors : Assign(f)
    \/ Times \/ Div
    \/ \E f \in Factors : TimesDouble(f)
    \/ \E f \in Factors : DivDouble(f)
    \/ \E Q1 \in QuantityTypes : UnitCast(Q1)
    \/ \E R \in 1..MaxR : Pow(R)
    \/ \E R \in 1..MaxR : Root(R)
    \/ Square \/ Cube \/ Sqrt \/ Cbrt

Spec == Init /\ [][Next]_vars


(***************************************************************************)
(* Properties of the quantity calls (specification Spec).                  *)
(***************************************************************************)
\* the eight exponent slots of a dimension vector
Slots == {"mass", "length", "time", "current", "angle", "temperature",
          "luminosity", "moles"}

\* r is a fraction in lowest terms with a positive denominator
Reduced(r) == r[2] > 0 /\ Gcd(Abs(r[1]), r[2]) = 1

\* r = p + q, r = p * q and r = p^n as statements about fractions
IsSum(r, p, q) == Reduced(r) /\ r[1] * p[2] * q[2] = (p[1] * q[2] + q[1] * p[2]) * r[2]

IsProduct(r, p, q) == Reduced(r) /\ r[1] * p[2] * q[2] = p[1] * q[1] * r[2]

IsPower(r, p, n) == Reduced(r) /\ r[1] * IPow(p[2], n) = IPow(p[1], n) * r[2]

Ok(op) == call.op = op /\ call.status = "ok"

\* C1: a * b has the slot-wise sum of the operands' dimension vectors over
\* all eight slots and the product of their values; a / b has the slot-wise
\* difference and the quotient; (a / b) * b has a's dimension vector again.
C1_DimensionalClosure ==
    /\ DOMAIN ret = {"dim", "value"} => DOMAIN ret.dim = Slots
    /\ Ok("times") =>
          /\ \A s \in Slots : IsSum(ret.dim[s], a.dim[s], b.dim[s])
          /\ IsProduct(ret.value, a.value, b.value)
    /\ Ok("div") =>
          /\ \A s \in Slots : IsSum(a.dim[s], ret.dim[s], b.dim[s])
          /\ IsProduct(a.value, ret.value, b.value)
          /\ operator_times(ret, b).dim = a.dim

C1_Witness ==
    /\ Ok("div") /\ a.dim = Length /\ b.dim = Force /\ a.value = D(2) /\ b.value = D(-1)
    /\ ret = Quantity(Dims(-1, 0, 2, 0, 0, 0, 0, 0), D(-2))
    /\ operator_times(ret, b).dim = Length

SameDimOps == {"add", "sub", "eq", "ne", "le", "ge", "lt", "gt",
               "plus_assign", "minus_assign", "convert"}

\* C2: add, subtract, the six comparisons, +=, -= and convert go through
\* exactly when both operands have the same dimension vector (add then
\* returns a quantity of that dimension holding the sum), assigning a bare
\* double exactly when every exponent of the receiver is zero; a rejected
\* call returns nothing and changes no value.
C2_NoMismatchedDimensions ==
    /\ call.op \in SameDimOps => (call.status = "ok" <=> old.dim = b.dim)
    /\ call.op = "assign" =>
          (call.status = "ok" <=> \A s \in Slots : old.dim[s] = <<0, 1>>)
    /\ Ok("add") => ret.dim = a.dim /\ ret.dim = b.dim
                    /\ IsSum(ret.value, a.value, b.value)
    /\ call.status = "ill-formed" => ret = NoResult /\ a = old

C2_Witness ==
    /\ call.op = "add" /\ call.status = "ill-formed"
    /\ a.dim = Length /\ b.dim = Force /\ ret = NoResult /\ a = old

\* C3: a quantity object keeps the dimension vector it was constructed
\* with through every call; a call that does not assign to it (unit_cast
\* among them) leaves it as it was.
C3_DimensionFixed ==
    /\ a.dim = ctor.a /\ b.dim = ctor.b
    /\ old.dim = ctor.a
    /\ call.op \notin {"plus_assign", "minus_assign", "times_assign", "div_assign",
                       "assign"} => a = old

C3_Witness ==
    /\ Ok("times_assign") /\ a.value # old.value /\ a.dim = Force /\ ctor.a = Force

\* C4: after a += b the value of a is the old value plus b's, after a -= b
\* the old value minus b's, after a *= f the old value times f, after
\* a /= f the old value divided by f.
C4_CompoundAssignment ==
    /\ Ok("plus_assign") => IsSum(a.value, old.value, b.value)
    /\ Ok("minus_assign") => IsSum(old.value, a.value, b.value)
    /\ Ok("times_assign") => IsProduct(a.value, old.value, call.f)
    /\ Ok("div_assign") => IsProduct(old.value, a.value, call.f)

\* pow<N>(q) multiplies every exponent by N and raises the value to the Nth
\* power; root<N>(q) divides every exponent by N and its value is the
\* non-negative Nth root
PowAndRoot ==
    /\ Ok("pow") =>
          /\ \A s \in Slots : IsProduct(ret.dim[s], a.dim[s], <<call.n, 1>>)
          /\ IsPower(ret.value, a.value, call.n)
          /\ HasRoot(ret.value, call.n) => units_root(call.n, ret).dim = a.dim
    /\ Ok("root") =>
          /\ \A s \in Slots : IsProduct(a.dim[s], ret.dim[s], <<call.n, 1>>)
          /\ IsPower(a.value, ret.value, call.n)
          /\ call.n > 1 => ret.value[1] >= 0

\* the value of root<N>(pow<N>(q)) is q's
RoundTrip == HasRoot(ret.value, call.n) /\ units_root(call.n, ret).value = a.value

C6_Shorthands ==
    /\ Ok("square") => ret = units_pow(2, a)
    /\ Ok("cube") => ret = units_pow(3, a)
    /\ Ok("sqrt") => ret = units_root(2, a)
    /\ Ok("cbrt") => HasRoot(a.value, 3) /\ ret = units_root(3, a)


(***************************************************************************)
(* class units::Vector3D<T>: three components of the quantity type T.      *)
(***************************************************************************)
\* the component type T of a Vector3D<T>
TypeOf(vec) == vec.x.dim

\* a parameter const Vector3D<T>& of a member of Vector3D<T>
VAccepts(self, other) == TypeOf(other) = TypeOf(self)

\* Vector3D::operator+
Vector3D_plus(self, other) ==
    Vector3D(operator_plus(self.x, other.x), operator_plus(self.y, other.y),
             operator_plus(self.z, other.z))

\* Vector3D::operator-
Vector3D_minus(self, other) ==
    Vector3D(operator_minus(self.x, other.x), operator_minus(self.y, other.y),
             operator_minus(self.z, other.z))

\* Vector3D::operator*(double factor)
Vector3D_times(self, factor) ==
    Vector3D(operator_times_double(self.x, factor), operator_times_double(self.y, factor),
             operator_times_double(self.z, factor))

\* Vector3D::operator/(double factor)
Vector3D_div(self, factor) ==
    Vector3D(operator_div_double(self.x, factor), operator_div_double(self.y, factor),
             operator_div_double(self.z, factor))

\* Vector3D::operator+=
Vector3D_plus_assign(self, other) ==
    Vector3D(operator_plus_assign(self.x, other.x), operator_plus_assign(self.y, other.y),
             operator_plus_assign(self.z, other.z))

\* Vector3D::operator-=
Vector3D_minus_assign(self, other) ==
    Vector3D(operator_minus_assign(self.x, other.x),
             operator_minus_assign(self.y, other.y),
             operator_minus_assign(self.z, other.z))

\* Vector3D::operator*=
Vector3D_times_assign(self, factor) ==
    Vector3D(operator_times_assign(self.x, factor), operator_times_assign(self.y, factor),
             operator_times_assign(self.z, factor))

\* Vector3D::operator/=
Vector3D_div_assign(self, factor) ==
    Vector3D(operator_div_assign(self.x, factor), operator_div_assign(self.y, factor),
             operator_div_assign(self.z, factor))

\* Vector3D::dot
Vector3D_dot_2D(self, other) ==
    operator_plus(operator_times(self.x, other.x), operator_times(self.y, other.y))

Vector3D_dot(self, other) ==
    operator_plus(operator_plus(operator_times(self.x, other.x),
                                operator_times(self.y, other.y)),
                  operator_times(self.z, other.z))

\* Vector3D::cross
Vector3D_cross_swapped_y(self, other) ==
    Vector3D(operator_minus(operator_times(self.y, other.z), operator_times(self.z, other.y)),
             operator_minus(operator_times(self.x, other.z), operator_times(self.z, other.x)),
             operator_minus(operator_times(self.x, other.y), operator_times(self.y, other.x)))

Vector3D_cross(self, other) ==
    Vector3D(operator_minus(operator_times(self.y, other.z), operator_times(self.z, other.y)),
             operator_minus(operator_times(self.z, other.x), operator_times(self.x, other.z)),
             operator_minus(operator_times(self.x, other.y), operator_times(self.y, other.x)))

\* Vector3D::magnitude: sqrt(square(x) + square(y) + square(z)), where sqrt
\* and square are units::sqrt and units::square
Vector3D_magnitude(self) ==
    units_sqrt(operator_plus(operator_plus(units_square(self.x), units_square(self.y)),
                             units_square(self.z)))

\* the vectors on which magnitude() is followed: every std::sqrt it
\* evaluates has a fraction as result
MagnitudeFollowed(self) ==
    /\ HasRoot(val(self.x), 2) /\ HasRoot(val(self.y), 2) /\ HasRoot(val(self.z), 2)
    /\ HasRoot(DAdd(DAdd(std_sqrt(val(self.x)), std_sqrt(val(self.y))),
                    std_sqrt(val(self.z))), 2)

(***************************************************************************)
(* Calls on the vector objects.                                            *)
(***************************************************************************)
\* the double arguments of the vector calls
VFactors == {D(-1), D(2)}

\* the component values vector objects are constructed with
VComponents == {D(-1), D(0), D(1)}

WComponents == {D(0), D(1)}

VRepresentable(vec) ==
    \A c \in {vec.x, vec.y, vec.z} : Abs(c.value[1]) <= MaxCompNum /\ c.value[2] = 1

VCall(op, f, wellFormed, self, result) ==
    /\ old' = v
    /\ call' = [op |-> op, f |-> f, n |-> 0,
                status |-> IF wellFormed THEN "ok" ELSE "ill-formed"]
    /\ v' = IF wellFormed THEN self ELSE v
    /\ ret' = IF wellFormed THEN result ELSE NoResult
    /\ UNCHANGED <<a, b, ctor, w>>

VPlus == VCall("vplus", D(0), VAccepts(v, w), v, Vector3D_plus(v, w))

VMinus == VCall("vminus", D(0), VAccepts(v, w), v, Vector3D_minus(v, w))

VTimesInPlace(f) ==
    /\ VRepresentable(Vector3D_times(v, f))
    /\ VCall("vtimes", f, TRUE, Vector3D_times(v, f), Vector3D_times(v, f))

VTimes(f) == VCall("vtimes", f, TRUE, v, Vector3D_times(v, f))

VDiv(f) == VCall("vdiv", f, TRUE, v, Vector3D_div(v, f))

VPlusAssign ==
    /\ VAccepts(v, w) => VRepresentable(Vector3D_plus_assign(v, w))
    /\ VCall("vplus_assign", D(0), VAccepts(v, w), Vector3D_plus_assign(v, w),
             Vector3D_plus_assign(v, w))

VMinusAssign ==
    /\ VAccepts(v, w) => VRepresentable(Vector3D_minus_assign(v, w))
    /\ VCall("vminus_assign", D(0), VAccepts(v, w), Vector3D_minus_assign(v, w),
             Vector3D_minus_assign(v, w))

VTimesAssign(f) ==
    /\ VRepresentable(Vector3D_times_assign(v, f))
    /\ VCall("vtimes_assign", f, TRUE, Vector3D_times_assign(v, f),
             Vector3D_times_assign(v, f))

VDivAssign(f) ==
    /\ VRepresentable(Vector3D_div_assign(v, f))
    /\ VCall("vdiv_assign", f, TRUE, Vector3D_div_assign(v, f),
             Vector3D_div_assign(v, f))

Dot == VCall("dot", D(0), TRUE, v, Vector3D_dot(v, w))

Cross == VCall("cross", D(0), TRUE, v, Vector3D_cross(v, w))

\* the returned sqrt(...) converts to the return type T only if it is a T
Magnitude ==
    /\ MagnitudeFollowed(v)
    /\ VCall("magnitude", D(0), Vector3D_magnitude(v).dim = TypeOf(v), v,
             Vector3D_magnitude(v))

\* a Vector3D<Length> and a Vector3D<Length> or Vector3D<Force> constructed
\* from components; the quantity objects are default-constructed Numbers
InitV ==
    /\ a = Quantity(Number, D(0))
    /\ b = Quantity(Number, D(0))
    /\ ctor = [a |-> a.dim, b |-> b.dim]
    /\ v \in {Vector3D(Quantity(Length, x), Quantity(Length, y), Quantity(Length, z)) :
                 x \in VComponents, y \in VComponents, z \in VComponents}
    /\ w \in {Vector3D(Quantity(Q, x), Quantity(Q, y), Quantity(Q, z)) :
                 Q \in {Length, Force}, x \in WComponents, y \in WComponents,
                 z \in WComponents}
    /\ old = v
    /\ call = [op |-> "construct", f |-> D(0), n |-> 0, status |-> "ok"]
    /\ ret = Void

NextV ==
    \/ VPlus \/ VMinus
    \/ \E f \in VFactors : VTimes(f)
    \/ \E f \in VFactors : VDiv(f)
    \/ VPlusAssign \/ VMinusAssign
    \/ \E f \in VFactors : VTimesAssign(f)
    \/ \E f \in VFactors : VDivAssign(f)
    \/ Dot \/ Cross \/ Magnitude

SpecV == InitV /\ [][NextV]_vars


(***************************************************************************)
(* Properties of the vector calls (specification SpecV).                   *)
(***************************************************************************)
\* the whole number a component holds (components are whole in SpecV)
N(q) == q.value[1]

Whole(vec) == \A c \in {vec.x, vec.y, vec.z} : c.value[2] = 1

AllOfType(vec, T) == vec.x.dim = T /\ vec.y.dim = T /\ vec.z.dim = T

\* C7: a.dot(b) is one quantity holding a.x*b.x + a.y*b.y + a.z*b.z whose
\* dimension vector is the slot-wise sum of T's and Q's (Torque for Length
\* and Force); for the axis vectors {1,0,0} and {0,1,0} it holds zero.
C7_Dot ==
    Ok("dot") =>
       /\ Whole(v) /\ Whole(w)
       /\ DOMAIN ret = {"dim", "value"}
       /\ ret.value = <<N(v.x) * N(w.x) + N(v.y) * N(w.y) + N(v.z) * N(w.z), 1>>
       /\ \A s \in Slots : IsSum(ret.dim[s], TypeOf(v)[s], TypeOf(w)[s])
       /\ TypeOf(v) = Length /\ TypeOf(w) = Force => ret.dim = Torque
       /\ (<<N(v.x), N(v.y), N(v.z)>> = <<1, 0, 0>>
             /\ <<N(w.x), N(w.y), N(w.z)>> = <<0, 1, 0>>) => ret.value = D(0)

C7_Witness ==
    /\ Ok("dot") /\ AllOfType(v, Length) /\ AllOfType(w, Force)
    /\ <<N(v.x), N(v.y), N(v.z)>> = <<2, -2, 2>>
    /\ <<N(w.x), N(w.y), N(w.z)>> = <<1, 0, 1>>
    /\ ret = Quantity(Torque, D(4))

\* C8: a.cross(b) is (a.y*b.z - a.z*b.y, a.z*b.x - a.x*b.z,
\* a.x*b.y - a.y*b.x) with every component of the product dimension of T
\* and Q; {1,0,0} x {0,1,0} in metres is {0,0,1} in square metres, a x a
\* is zero, and a x b is the negation of b x a when T = Q.
C8_Cross ==
    Ok("cross") =>
       /\ Whole(v) /\ Whole(w)
       /\ DOMAIN ret = {"x", "y", "z"}
       /\ ret.x.value = <<N(v.y) * N(w.z) - N(v.z) * N(w.y), 1>>
       /\ ret.y.value = <<N(v.z) * N(w.x) - N(v.x) * N(w.z), 1>>
       /\ ret.z.value = <<N(v.x) * N(w.y) - N(v.y) * N(w.x), 1>>
       /\ \A c \in {ret.x, ret.y, ret.z} :
             \A s \in Slots : IsSum(c.dim[s], TypeOf(v)[s], TypeOf(w)[s])
       /\ (TypeOf(v) = Length /\ TypeOf(w) = Length
             /\ <<N(v.x), N(v.y), N(v.z)>> = <<1, 0, 0>>
             /\ <<N(w.x), N(w.y), N(w.z)>> = <<0, 1, 0>>) =>
                ret = Vector3D(Quantity(Area, D(0)), Quantity(Area, D(0)),
                               Quantity(Area, D(1)))
       /\ w = v => \A c \in {ret.x, ret.y, ret.z} : c.value = D(0)
       /\ TypeOf(v) = TypeOf(w) =>
             ret = Vector3D_times(Vector3D_cross(w, v), D(-1))

C8_Witness ==
    /\ Ok("cross") /\ AllOfType(v, Length) /\ AllOfType(w, Force)
    /\ <<N(v.x), N(v.y), N(v.z)>> = <<2, -2, 2>>
    /\ <<N(w.x), N(w.y), N(w.z)>> = <<1, 0, 1>>
    /\ ret = Vector3D(Quantity(Torque, D(-2)), Quantity(Torque, D(0)),
                      Quantity(Torque, D(2)))

\* C9: v.magnitude() is a quantity of v's own dimension T whose value is the
\* non-negative square root of x^2 + y^2 + z^2.
C9_Magnitude ==
    Ok("magnitude") =>
       /\ ret.dim = TypeOf(v)
       /\ ret.value[1] >= 0 /\ Reduced(ret.value)
       /\ ret.value[1] * ret.value[1] =
            (N(v.x) * N(v.x) + N(v.y) * N(v.y) + N(v.z) * N(v.z))
               * ret.value[2] * ret.value[2]

\* C10: after v += w, v -= w, v *= f, v /= f the receiver equals old v + w,
\* old v - w, old v * f, old v / f.
C10_CompoundVector ==
    /\ Ok("vplus_assign") => v = Vector3D_plus(old, w)
    /\ Ok("vminus_assign") => v = Vector3D_minus(old, w)
    /\ Ok("vtimes_assign") => v = Vector3D_times(old, call.f)
    /\ Ok("vdiv_assign") => v = Vector3D_div(old, call.f)


(***************************************************************************)
(* Angular / linear conversion, the named units and the round-to-multiple  *)
(* helpers (specification SpecC).                                          *)
(***************************************************************************)
LinearVelocity == Dims(0, 1, -1, 0, 0, 0, 0, 0)

\* Quantity<Q::mass, Q::angle, Q::time, Q::current, Q::length, ...>: the
\* return type of toLinear<Q> and toAngular<Q>
SwappedLengthAngle(Q) ==
    [mass |-> Q.mass, length |-> Q.angle, time |-> Q.time, current |-> Q.current,
     angle |-> Q.length, temperature |-> Q.temperature, luminosity |-> Q.luminosity,
     moles |-> Q.moles]

\* the parameter Quantity<Q::mass, Q::length, ...> of toLinear<Q>, toAngular<Q>
\* and the parameter Length diameter
TakesQ(Q, quantity, diameter) == quantity.dim = Q /\ diameter.dim = Length

\* toLinear<Q>(angular, diameter)
toLinear_whole_diameter(Q, angular, diameter) ==
    unit_cast(SwappedLengthAngle(Q), operator_times(angular, diameter))

toLinear(Q, angular, diameter) ==
    unit_cast(SwappedLengthAngle(Q),
              operator_times(angular, operator_div_double(diameter, D(2))))

\* toAngular<Q>(linear, diameter)
toAngular(Q, linear, diameter) ==
    unit_cast(SwappedLengthAngle(Q),
              operator_div(linear, operator_div_double(diameter, D(2))))

ToLinear(Q) ==
    /\ a.value[2] = 1
    /\ QCall("toLinear", D(0), 0, TakesQ(Q, a, b), a, toLinear(Q, a, b))

ToAngular(Q) ==
    /\ val(b) # D(0) /\ a.value[2] = 1
    /\ QCall("toAngular", D(0), 0, TakesQ(Q, a, b), a, toAngular(Q, a, b))

\* the quantity types the conversions are instantiated with
ConvTypes == {Number, Length, LinearVelocity, Dims(0, 0, -1, 0, 1, 0, 0, 0),
              Dims(1, 2, 0, 0, -1, 0, 0, 0)}

\* the named units of Length: NEW_QUANTITY(Length, m, ...) and the
\* NEW_QUANTITY_VALUE lines that scale it
unit_m == Quantity(Length, D(1))

unit_cm == operator_div_double(unit_m, D(100))

unit_mm == operator_div_double(unit_m, D(1000))

unit_in == operator_times_double(unit_cm, <<127, 50>>)

unit_ft == operator_times_double(unit_in, D(12))

unit_yd == operator_times_double(unit_ft, D(3))

unit_mi == operator_times_double(unit_ft, D(5280))

unit_tile == operator_times_double(unit_mm, D(600))

LengthUnits == {unit_m, unit_cm, unit_mm, unit_in, unit_ft, unit_yd, unit_mi, unit_tile}

\* NEW_QUANTITY_VALUE: from_<suffix>(double value) { return value * val; }
from_suffix(unit, value) == operator_times_double(unit, value)

\* NEW_QUANTITY_VALUE: to_<suffix>(Name quantity) { return quantity.convert(val); }
to_suffix(unit, quantity) == convert(quantity, unit)

From(x) ==
    /\ b \in LengthUnits
    /\ QCall("from", x, 0, TRUE, a, from_suffix(b, x))

To ==
    /\ b \in LengthUnits
    /\ QCall("to", D(0), 0, Accepts(b, a), a, Double(to_suffix(b, a)))

\* std::floor, std::ceil, std::trunc, std::round (halves away from zero)
std_floor(x) == D(x[1] \div x[2])

std_ceil(x) == D(-((-x[1]) \div x[2]))

std_trunc(x) == IF x[1] >= 0 THEN std_floor(x) ELSE std_ceil(x)

std_round(x) ==
    IF x[1] >= 0 THEN D((2 * x[1] + x[2]) \div (2 * x[2]))
                 ELSE D(-((x[2] - 2 * x[1]) \div (2 * x[2])))

\* units::ceil(lhs, rhs)
units_ceil(lhs, rhs) ==
    Quantity(lhs.dim, DMul(std_ceil(DDiv(val(lhs), val(rhs))), val(rhs)))

\* units::floor(lhs, rhs)
units_floor_truncates(lhs, rhs) ==
    Quantity(lhs.dim, DMul(std_trunc(DDiv(val(lhs), val(rhs))), val(rhs)))

units_floor(lhs, rhs) ==
    Quantity(lhs.dim, DMul(std_floor(DDiv(val(lhs), val(rhs))), val(rhs)))

\* units::trunc(lhs, rhs)
units_trunc(lhs, rhs) ==
    Quantity(lhs.dim, DMul(std_trunc(DDiv(val(lhs), val(rhs))), val(rhs)))

\* units::round(lhs, rhs)
units_round(lhs, rhs) ==
    Quantity(lhs.dim, DMul(std_round(DDiv(val(lhs), val(rhs))), val(rhs)))

Ceil ==
    /\ Deduces(a, b) => val(b) # D(0)
    /\ QCall("ceil", D(0), 0, Deduces(a, b), a, units_ceil(a, b))

Floor ==
    /\ Deduces(a, b) => val(b) # D(0)
    /\ QCall("floor", D(0), 0, Deduces(a, b), a, units_floor(a, b))

Trunc ==
    /\ Deduces(a, b) => val(b) # D(0)
    /\ QCall("trunc", D(0), 0, Deduces(a, b), a, units_trunc(a, b))

Round ==
    /\ Deduces(a, b) => val(b) # D(0)
    /\ QCall("round", D(0), 0, Deduces(a, b), a, units_round(a, b))

\* a quantity and a Length (a diameter, a multiple or a named unit)
InitC ==
    /\ a \in {Quantity(T, x) : T \in ConvTypes, x \in Values} \cup LengthUnits
    /\ b \in {Quantity(Length, x) : x \in Values} \cup LengthUnits
    /\ ctor = [a |-> a.dim, b |-> b.dim]
    /\ v = Vector3D_default(Number)
    /\ w = Vector3D_default(Number)
    /\ old = a
    /\ call = [op |-> "construct", f |-> D(0), n |-> 0, status |-> "ok"]
    /\ ret = Void

NextC ==
    \/ \E Q \in ConvTypes : ToLinear(Q)
    \/ \E Q \in ConvTypes : ToAngular(Q)
    \/ Convert
    \/ \E x \in Factors : From(x)
    \/ To
    \/ Ceil \/ Floor \/ Trunc \/ Round

SpecC == InitC /\ [][NextC]_vars

\* the slots other than length and angle
OtherSlots == Slots \ {"length", "angle"}

RoundOps == {"ceil", "floor", "trunc", "round"}

\* each helper returns a whole multiple of rhs of the operands' dimension,
\* and ceil and floor are at most |rhs| apart
WholeMultiples ==
    /\ call.op \in RoundOps /\ call.status = "ok" =>
          /\ ret.dim = a.dim /\ ret.dim = b.dim
          /\ Reduced(ret.value)
          /\ DDiv(ret.value, b.value)[2] = 1
    /\ Ok("ceil") =>
          LET d == DSub(ret.value, units_floor(a, b).value)
          IN  DLeq(d, <<Abs(b.value[1]), b.value[2]>>)

Angle == Dims(0, 0, 0, 0, 1, 0, 0, 0)

\* the angles whose cosine is a fraction, and std::cos on them
HasCos(x) == x[2] = 1 /\ (x[1] % 12) \in {0, 2, 3, 4, 6, 8, 9, 10}

std_cos(x) ==
    LET k == x[1] % 12
    IN  CASE k = 0 -> D(1)
          [] k \in {2, 10} -> <<1, 2>>
          [] k \in {3, 9} -> D(0)
          [] k \in {4, 8} -> <<-1, 2>>
          [] k = 6 -> D(-1)

\* the arguments in [-1, 1] whose arc cosine is a whole number of sixths of
\* pi, and std::acos on them
HasAcos(x) == x \in {D(1), <<1, 2>>, D(0), <<-1, 2>>, D(-1)}

std_acos(x) ==
    CASE x = D(1) -> D(0)
      [] x = <<1, 2>> -> D(2)
      [] x = D(0) -> D(3)
      [] x = <<-1, 2>> -> D(4)
      [] x = D(-1) -> D(6)

\* units::cos(Angle) and units::acos(Number)
units_cos(rhs) == Quantity(Number, std_cos(val(rhs)))

units_acos(rhs) == Quantity(Angle, std_acos(val(rhs)))

IsVector3D(x) == DOMAIN x = {"x", "y", "z"}

\* Vector3D::theta
Vector3D_theta(self) ==
    LET mag == Vector3D_magnitude(self)
    IN  Vector3D(units_acos(operator_div(self.x, mag)),
                 units_acos(operator_div(self.y, mag)),
                 units_acos(operator_div(self.z, mag)))

\* the vectors on which theta() is followed: a nonzero magnitude and
\* arguments of acos that have an exact arc cosine
ThetaFollowed(self) ==
    /\ MagnitudeFollowed(self)
    /\ val(Vector3D_magnitude(self)) # D(0)
    /\ \A c \in {self.x, self.y, self.z} :
          HasAcos(val(operator_div(c, Vector3D_magnitude(self))))

CosFollowed(t) == HasCos(val(t.x)) /\ HasCos(val(t.y)) /\ HasCos(val(t.z))

\* the members of Quantity; fromPolar calls m.abs()
QuantityMembers == {"val", "convert"}

\* Vector3D::fromPolar: the return statement
Vector3D_fromPolar(t, m) ==
    Vector3D(operator_times(m, units_cos(t.x)), operator_times(m, units_cos(t.y)),
             operator_times(m, units_cos(t.z)))

\* Vector3D::normalize: the components of the returned expression
Vector3D_normalize(self) ==
    LET m == Vector3D_magnitude(self)
    IN  Vector3D(operator_div(self.x, m), operator_div(self.y, m),
                 operator_div(self.z, m))

\* Vector3D::vectorTo: the components of the returned expression
Vector3D_vectorTo(self, other) ==
    Vector3D(operator_minus(other.x, self.x), operator_minus(other.y, self.y),
             operator_minus(other.z, self.z))

\* Vector3D::angleTo
Vector3D_angleTo(self, other) ==
    units_acos(operator_div(Vector3D_dot(self, other),
                            operator_times(Vector3D_magnitude(self),
                                           Vector3D_magnitude(other))))

\* Vector3D::rotateBy: the receiver after the call
Vector3D_rotateBy(self, angle) ==
    LET m == Vector3D_magnitude(self)
        t == Vector3D_plus(Vector3D_theta(self), angle)
    IN  Vector3D(operator_times(m, units_cos(t.x)), operator_times(m, units_cos(t.y)),
                 operator_times(m, units_cos(t.z)))

\* Vector3D::rotateTo: the receiver after the call
Vector3D_rotateTo(self, angle) ==
    LET m == Vector3D_magnitude(self)
    IN  Vector3D(operator_times(m, units_cos(angle.x)),
                 operator_times(m, units_cos(angle.y)),
                 operator_times(m, units_cos(angle.z)))

\* the angles the rotation members are called with
AngleValues == {D(0), D(2), D(3), D(6)}

AngleVectors ==
    {Vector3D(Quantity(Angle, t[1]), Quantity(Angle, t[2]), Quantity(Angle, t[3])) :
        t \in {<<D(0), D(3), D(3)>>, <<D(3), D(3), D(0)>>, <<D(2), D(3), D(6)>>,
               <<D(3), D(0), D(3)>>}}

\* normalize returns Vector2D<T>(x / m, y / m, z / m) as a Vector3D<T>:
\* the quotients must be of type T, and whether a Vector2D<T> is built from
\* three of them and converts to the return type is decided by a class
\* template that is not part of these headers
Normalize ==
    /\ MagnitudeFollowed(v) /\ val(Vector3D_magnitude(v)) # D(0)
    /\ \E constructs \in BOOLEAN :
          VCall("normalize", D(0),
                constructs /\ AllOfType(Vector3D_normalize(v), TypeOf(v)), v,
                Vector3D_normalize(v))

Theta ==
    /\ ThetaFollowed(v)
    /\ VCall("theta", D(0), Vector3D_magnitude(v).dim = TypeOf(v), v, Vector3D_theta(v))

\* fromPolar(v.theta(), v.magnitude())
FromPolar ==
    /\ ThetaFollowed(v)
    /\ VCall("fromPolar", D(0), "abs" \in QuantityMembers, v,
             Vector3D_fromPolar(Vector3D_theta(v), Vector3D_magnitude(v)))

VectorTo ==
    \E constructs \in BOOLEAN :
       VCall("vectorTo", D(0), constructs /\ VAccepts(v, w), v, Vector3D_vectorTo(v, w))

DistanceTo ==
    /\ MagnitudeFollowed(Vector3D_vectorTo(v, w))
    /\ \E constructs \in BOOLEAN :
          VCall("distanceTo", D(0), constructs /\ VAccepts(v, w), v,
                Vector3D_magnitude(Vector3D_vectorTo(v, w)))

AngleTo ==
    /\ MagnitudeFollowed(v) /\ MagnitudeFollowed(w)
    /\ val(Vector3D_magnitude(v)) # D(0) /\ val(Vector3D_magnitude(w)) # D(0)
    /\ HasAcos(val(operator_div(Vector3D_dot(v, w),
                                operator_times(Vector3D_magnitude(v),
                                               Vector3D_magnitude(w)))))
    /\ VCall("angleTo", D(0), VAccepts(v, w), v, Vector3D_angleTo(v, w))

RotateBy(angle) ==
    /\ ThetaFollowed(v)
    /\ CosFollowed(Vector3D_plus(Vector3D_theta(v), angle))
    /\ VRepresentable(Vector3D_rotateBy(v, angle))
    /\ VCall("rotateBy", D(0), TRUE, Vector3D_rotateBy(v, angle), Void)

RotateTo(angle) ==
    /\ MagnitudeFollowed(v)
    /\ CosFollowed(angle)
    /\ VRepresentable(Vector3D_rotateTo(v, angle))
    /\ VCall("rotateTo", D(0), TRUE, Vector3D_rotateTo(v, angle), Void)

\* rotatedBy initialises an Angle with theta() + angle and passes it on
RotatedBy(angle) ==
    /\ ThetaFollowed(v)
    /\ VCall("rotatedBy", D(0),
             ~IsVector3D(Vector3D_plus(Vector3D_theta(v), angle))
                /\ "abs" \in QuantityMembers,
             v, Vector3D_fromPolar(Vector3D_plus(Vector3D_theta(v), angle),
                                   Vector3D_magnitude(v)))

\* rotatedTo passes its Angle where fromPolar takes a Vector3D<Angle>
RotatedTo(angle) ==
    /\ MagnitudeFollowed(v)
    /\ VCall("rotatedTo", val(angle), IsVector3D(angle) /\ "abs" \in QuantityMembers,
             v, Vector3D_fromPolar(angle, Vector3D_magnitude(v)))

\* the components the receiver is followed on in SpecP
MaxPolarNum == 2

PolarRepresentable(vec) ==
    \A c \in {vec.x, vec.y, vec.z} : Abs(c.value[1]) <= MaxPolarNum

\* a Vector3D<Number> or Vector3D<Length>, a Vector3D<Length>, and two
\* Lengths for the math helpers
InitP ==
    /\ a = Quantity(Length, D(1))
    /\ b = Quantity(Length, D(2))
    /\ ctor = [a |-> a.dim, b |-> b.dim]
    /\ v \in {Vector3D(Quantity(T, x), Quantity(T, y), Quantity(T, z)) :
                 T \in {Number, Length}, x \in WComponents, y \in WComponents,
                 z \in WComponents}
    /\ w \in {Vector3D(Quantity(Length, x), Quantity(Length, y), Quantity(Length, D(0))) :
                 x \in WComponents, y \in WComponents}
    /\ old = v
    /\ call = [op |-> "construct", f |-> D(0), n |-> 0, status |-> "ok"]
    /\ ret = Void

NextP ==
    \/ NextV /\ PolarRepresentable(v')
    \/ Normalize \/ Theta \/ FromPolar \/ VectorTo \/ DistanceTo \/ AngleTo
    \/ \E angle \in AngleVectors : RotateBy(angle)
    \/ \E angle \in AngleVectors : RotateTo(angle)
    \/ \E angle \in AngleVectors : RotatedBy(angle)
    \/ \E x \in AngleValues : RotatedTo(Quantity(Angle, x))
    \/ Ceil \/ Floor \/ Trunc \/ Round \/ Square \/ Sqrt

SpecP == InitP /\ [][NextP]_vars

(***************************************************************************)
(* Properties of normalize, the polar members and the frame of every call  *)
(* (specification SpecP).                                                  *)
(***************************************************************************)
LengthVector(x, y, z) ==
    Vector3D(Quantity(Length, D(x)), Quantity(Length, D(y)), Quantity(Length, D(z)))

\* C13: for a Vector3D<Length> v with nonzero magnitude, v.normalize()
\* returns a Vector3D<Length> whose components are v.x, v.y, v.z each
\* divided by v.magnitude(), and v itself is not modified.
C13_Normalize ==
    call.op = "normalize" /\ TypeOf(old) = Length =>
       /\ call.status = "ok"
       /\ IsVector3D(ret) /\ AllOfType(ret, Length)
       /\ \A c \in {"x", "y", "z"} :
             DMul(val(ret[c]), val(Vector3D_magnitude(old))) = val(old[c])
       /\ v = old

\* C14: for a vector v with nonzero magnitude,
\* fromPolar(v.theta(), v.magnitude()) has the same three components as v.
C14_PolarRoundTrip ==
    call.op = "fromPolar" => call.status = "ok" /\ ret = v

NonMutating ==
    {"vplus", "vminus", "vtimes", "vdiv", "dot", "cross", "magnitude", "theta",
     "vectorTo", "distanceTo", "angleTo", "fromPolar", "rotatedBy", "rotatedTo",
     "normalize", "ceil", "floor", "trunc", "round", "square", "sqrt"}

Mutators ==
    {"vplus_assign", "vminus_assign", "vtimes_assign", "vdiv_assign", "rotateBy",
     "rotateTo"}

\* C15: every call is a mutator (+=, -=, *=, /=, rotateBy, rotateTo) or a
\* non-mutating operation; a non-mutating operation leaves its receiver,
\* its argument and every other object unchanged, and a mutator leaves its
\* argument and every object other than its receiver unchanged.
C15_Frame ==
    [][/\ call'.op \in NonMutating \cup Mutators
       /\ call'.op \in NonMutating => v' = v /\ w' = w /\ a' = a /\ b' = b
       /\ call'.op \in Mutators => w' = w /\ a' = a /\ b' = b]_vars

C15_Witness ==
    /\ call.op = "rotateTo" /\ call.status = "ok"
    /\ old = LengthVector(1, 0, 0) /\ v = LengthVector(0, 0, 1)
    /\ w = LengthVector(1, 1, 0)
    /\ a = Quantity(Length, D(1)) /\ b = Quantity(Length, D(2))

=============================================================================
